---- MODULE Spec2Model ----
\* Model of mp-units' reference binder (reference.h) and of the
\* DerivedQuantitySpecExpr constraint (bits/quantity_spec_concepts.h).
\*
\* All of the library's algebra runs at compile time and is pure, so the
\* model is a machine whose actions apply one operation to inputs drawn
\* from bounded sets and record the operands and the result.  A second
\* machine executes the recursive walk of detail::get_associated_quantity
\* one template instantiation at a time.
EXTENDS Integers, Sequences, FiniteSets, TLC

VARIABLES op, a, b, c, out, wpc, wunit, wstack, wacc

vars == <<op, a, b, c, out, wpc, wunit, wstack, wacc>>

calcVars == <<op, a, b, c, out>>

walkVars == <<wpc, wunit, wstack, wacc>>

-----------------------------------------------------------------------------
\* Bounds of the explored inputs.

\* number of * and / applied to a named unit (or to one) to build a bare unit
MaxUnitOps == 1

\* number of * and / applied to a named spec (or to dimensionless) to build
\* the spec side of a reference
MaxSpecOps == 1

\* nesting depth of the type terms given to DerivedQuantitySpecExpr
MaxTermDepth == 2

\* largest number of elements of a per<...>
MaxPerLen == 2

-----------------------------------------------------------------------------
\* Option values: a call that is ill-formed (rejected by the compiler) has no
\* result.

None == <<>>

Some(x) == <<x>>

Range(s) == {s[i] : i \in DOMAIN s}

-----------------------------------------------------------------------------
\* Expression engine shared by quantity specs and units (spec 4.2, 4.3).
\* A normalized expression is a numerator and a denominator list of
\* <<name, exponent>> factors, exponents positive, in the canonical order of
\* `names`.  A named entity is the expression with that single first-power
\* factor; the identity is the expression with no factor.

Named(n) == [num |-> <<<<n, 1>>>>, den |-> <<>>]

Identity == [num |-> <<>>, den |-> <<>>]

ExpIn(l, n) ==
  IF \E i \in DOMAIN l : l[i][1] = n
    THEN l[CHOOSE i \in DOMAIN l : l[i][1] = n][2]
    ELSE 0

ExpOf(e, n) == ExpIn(e.num, n) - ExpIn(e.den, n)

RECURSIVE Factors(_, _, _)
Factors(names, f, sign) ==
  IF names = <<>> THEN <<>>
  ELSE LET n == Head(names)
           rest == Factors(Tail(names), f, sign)
       IN IF sign * f[n] > 0 THEN <<<<n, sign * f[n]>>>> \o rest ELSE rest

Normalize(names, f) == [num |-> Factors(names, f, 1), den |-> Factors(names, f, -1)]

expr_multiply(names, x, y) ==
  Normalize(names, [n \in Range(names) |-> ExpOf(x, n) + ExpOf(y, n)])

expr_divide(names, x, y) ==
  Normalize(names, [n \in Range(names) |-> ExpOf(x, n) - ExpOf(y, n)])

expr_pow(names, x, k) ==
  Normalize(names, [n \in Range(names) |-> k * ExpOf(x, n)])

IsNamed(e) == e.den = <<>> /\ Len(e.num) = 1 /\ e.num[1][2] = 1

NameOf(e) == e.num[1][1]

-----------------------------------------------------------------------------
\* Catalog of quantity specs (data the algebra consumes).

SpecNames == <<"displacement", "length", "time">>

dimensionless == Identity

\* displacement is a kind of length
SpecParent == [displacement |-> "length"]

SpecCharacter == [displacement |-> "vector", length |-> "scalar", time |-> "scalar"]

Characters == {"scalar", "vector"}

CharacterRank == [scalar |-> 0, vector |-> 1]

spec_mul(q1, q2) == expr_multiply(SpecNames, q1, q2)

spec_div(q1, q2) == expr_divide(SpecNames, q1, q2)

spec_pow(q, k) == expr_pow(SpecNames, q, k)

spec_eq(q1, q2) == q1 = q2

KindRoot(n) == IF n \in DOMAIN SpecParent THEN SpecParent[n] ELSE n

\* the spec with every named kind replaced by the root of its hierarchy
SpecRootForm(q) ==
  Normalize(SpecNames,
            [n \in Range(SpecNames) |->
               LET kids == {m \in Range(SpecNames) : KindRoot(m) = n}
                   RECURSIVE Sum(_)
                   Sum(S) == IF S = {} THEN 0
                             ELSE LET m == CHOOSE m \in S : TRUE
                                  IN ExpOf(q, m) + Sum(S \ {m})
               IN Sum(kids)])

interconvertible_spec(q1, q2) == SpecRootForm(q1) = SpecRootForm(q2)

common_quantity_spec(q1, q2) ==
  IF ~interconvertible_spec(q1, q2) THEN None
  ELSE IF spec_eq(q1, q2) THEN Some(q1)
  ELSE Some(SpecRootForm(q1))

common_quantity_spec3(q1, q2, q3) ==
  LET c12 == common_quantity_spec(q1, q2)
  IN IF c12 = None THEN None ELSE common_quantity_spec(c12[1], q3)

character(q) ==
  LET used == {CharacterRank[SpecCharacter[n]] : n \in {m \in Range(SpecNames) : ExpOf(q, m) # 0}}
  IN IF \E r \in used : r = 1 THEN "vector" ELSE "scalar"

-----------------------------------------------------------------------------
\* Catalog of units.

UnitNames == <<"hectare", "kilometre", "metre", "pixel", "second">>

one == Identity

unit_mul(u1, u2) == expr_multiply(UnitNames, u1, u2)

unit_div(u1, u2) == expr_divide(UnitNames, u1, u2)

unit_eq(u1, u2) == u1 = u2

\* U::reference_unit of the named units that are defined in terms of another
\* unit: kilometre = 10^3 metre, hectare = 10^4 metre^2
reference_unit ==
  [kilometre |-> Named("metre"),
   hectare   |-> [num |-> <<<<"metre", 2>>>>, den |-> <<>>]]

\* U::base_quantity of the base units; pixel declares neither
base_quantity == [metre |-> Named("length"), second |-> Named("time")]

\* decimal exponent of the scale of a named unit relative to its reference unit
UnitScale == [hectare |-> 4, kilometre |-> 3, metre |-> 0, pixel |-> 0, second |-> 0]

\* exponent of the base unit `base` in the expansion of u through the
\* reference units, and the decimal exponent of u's scale
RECURSIVE BaseExp(_, _, _)
BaseExp(u, base, i) ==
  IF i > Len(UnitNames) THEN 0
  ELSE LET n == UnitNames[i]
           own == IF n \in DOMAIN reference_unit THEN BaseExp(reference_unit[n], base, 1)
                  ELSE IF n = base THEN 1 ELSE 0
       IN (IF ExpOf(u, n) = 0 THEN 0 ELSE ExpOf(u, n) * own) + BaseExp(u, base, i + 1)

CanonicalUnit(u) == Normalize(UnitNames, [n \in Range(UnitNames) |-> BaseExp(u, n, 1)])

RECURSIVE Scale(_, _)
Scale(u, i) ==
  IF i > Len(UnitNames) THEN 0
  ELSE LET n == UnitNames[i]
           own == UnitScale[n] + (IF n \in DOMAIN reference_unit THEN Scale(reference_unit[n], 1) ELSE 0)
       IN (IF ExpOf(u, n) = 0 THEN 0 ELSE ExpOf(u, n) * own) + Scale(u, i + 1)

interconvertible_unit(u1, u2) == CanonicalUnit(u1) = CanonicalUnit(u2)

common_unit(u1, u2) ==
  IF ~interconvertible_unit(u1, u2) THEN None
  ELSE IF unit_eq(u1, u2) THEN Some(u1)
  ELSE IF Scale(u1, 1) <= Scale(u2, 1) THEN Some(u1) ELSE Some(u2)

common_unit3(u1, u2, u3) ==
  LET c12 == common_unit(u1, u2)
  IN IF c12 = None THEN None ELSE common_unit(c12[1], u3)

\* the AssociatedUnit concept: every chain of the unit's definition ends in a
\* base unit that declares a base quantity
RECURSIVE AssociatedUnit(_)
AssociatedUnit(u) ==
  \A n \in Range(UnitNames) :
    ExpOf(u, n) # 0 =>
      \/ n \in DOMAIN base_quantity
      \/ n \in DOMAIN reference_unit /\ AssociatedUnit(reference_unit[n])

-----------------------------------------------------------------------------
\* reference.h: the association between a unit and its quantity spec.

opt_mul(x, y) == IF x = None \/ y = None THEN None ELSE Some(spec_mul(x[1], y[1]))

opt_div(x, y) == IF x = None \/ y = None THEN None ELSE Some(spec_div(x[1], y[1]))

has_reference_unit(u) == IsNamed(u) /\ NameOf(u) \in DOMAIN reference_unit

has_num(u) == ~IsNamed(u)

has_base_quantity(u) == IsNamed(u) /\ NameOf(u) \in DOMAIN base_quantity

UnitCase_NoBase(u) ==
  IF has_reference_unit(u) THEN "reference_unit"
  ELSE IF has_num(u) THEN "_num_"
  ELSE "none"

\* the if-constexpr chain of get_associated_quantity(U); with no branch taken
\* the function returns nothing
UnitCase(u) ==
  IF has_reference_unit(u) THEN "reference_unit"
  ELSE IF has_num(u) THEN "_num_"
  ELSE IF has_base_quantity(u) THEN "base_quantity"
  ELSE "none"

RECURSIVE get_associated_quantity(_)
RECURSIVE get_associated_quantity_power(_)
RECURSIVE get_associated_quantity_list(_)

\* get_associated_quantity(power<U, Vs...>): the exponent Vs is not used
get_associated_quantity_power(p) == get_associated_quantity(Named(p[1]))

\* get_associated_quantity(type_list<Us...>): (dimensionless * ... * g(Us{})),
\* a left fold; each element is a unit type or a power<U, Vs...>
get_associated_quantity_list(l) ==
  IF l = <<>> THEN Some(dimensionless)
  ELSE LET f == l[Len(l)]
           g == IF f[2] = 1 THEN get_associated_quantity(Named(f[1]))
                ELSE get_associated_quantity_power(f)
       IN opt_mul(get_associated_quantity_list(SubSeq(l, 1, Len(l) - 1)), g)

get_associated_quantity(u) ==
  LET k == UnitCase(u)
  IN IF k = "reference_unit" THEN get_associated_quantity(reference_unit[NameOf(u)])
     ELSE IF k = "_num_"
       THEN opt_div(get_associated_quantity_list(u.num), get_associated_quantity_list(u.den))
     ELSE IF k = "base_quantity" THEN Some(base_quantity[NameOf(u)])
     ELSE None

\* get_quantity_spec(AssociatedUnit auto u)
get_quantity_spec(u) == get_associated_quantity(u)[1]

\* get_quantity_spec(reference<Q, U>)
get_quantity_spec_ref(r) == r.q

\* get_unit(AssociatedUnit auto u)
get_unit(u) == u

\* get_unit(reference<Q, U>)
get_unit_ref(r) == r.u

-----------------------------------------------------------------------------
\* reference.h: the reference and its algebra.

reference(Q, U) == [q |-> Q, u |-> U]

reference_eq_UnitOnly(r1, r2) == unit_eq(r1.u, r2.u)

\* operator==(reference<Q1, U1>, reference<Q2, U2>)
reference_eq(r1, r2) == spec_eq(r1.q, r2.q) /\ unit_eq(r1.u, r2.u)

reference_eq_unit_UnitOnly(r1, u2) == unit_eq(r1.u, u2)

\* operator==(reference<Q1, U1>, U2)
reference_eq_unit(r1, u2) == spec_eq(r1.q, get_quantity_spec(u2)) /\ unit_eq(r1.u, u2)

\* operator*(reference<Q1, U1>, reference<Q2, U2>)
reference_mul(r1, r2) == reference(spec_mul(r1.q, r2.q), unit_mul(r1.u, r2.u))

\* operator*(reference<Q1, U1>, U2)
reference_mul_unit(r1, u2) == reference(spec_mul(r1.q, get_quantity_spec(u2)), unit_mul(r1.u, u2))

\* operator*(U1, reference<Q2, U2>)
unit_mul_reference(u1, r2) == reference(spec_mul(get_quantity_spec(u1), r2.q), unit_mul(u1, r2.u))

\* operator/(reference<Q1, U1>, reference<Q2, U2>)
reference_div(r1, r2) == reference(spec_div(r1.q, r2.q), unit_div(r1.u, r2.u))

\* operator/(reference<Q1, U1>, U2)
reference_div_unit(r1, u2) == reference(spec_div(r1.q, get_quantity_spec(u2)), unit_div(r1.u, u2))

unit_div_reference_Swapped(u1, r2) ==
  reference(spec_div(r2.q, get_quantity_spec(u1)), unit_div(r2.u, u1))

\* operator/(U1, reference<Q2, U2>)
unit_div_reference(u1, r2) == reference(spec_div(get_quantity_spec(u1), r2.q), unit_div(u1, r2.u))

interconvertible_SpecOnly(r1, r2) == interconvertible_spec(r1.q, r2.q)

\* interconvertible(reference<Q1, U1>, reference<Q2, U2>)
interconvertible(r1, r2) == interconvertible_spec(r1.q, r2.q) /\ interconvertible_unit(r1.u, r2.u)

\* interconvertible(reference<Q1, U1>, U2)
interconvertible_ref_unit(r1, u2) ==
  interconvertible_spec(r1.q, get_quantity_spec(u2)) /\ interconvertible_unit(r1.u, u2)

\* interconvertible(U1, reference<Q2, U2>)
interconvertible_unit_ref(u1, r2) == interconvertible_ref_unit(r2, u1)

common_reference_Partial(r1, r2) ==
  LET q == common_quantity_spec(get_quantity_spec_ref(r1), get_quantity_spec_ref(r2))
      u == common_unit(get_unit_ref(r1), get_unit_ref(r2))
  IN IF q = None THEN None
     ELSE Some(reference(q[1], IF u = None THEN get_unit_ref(r1) ELSE u[1]))

\* common_reference(Reference auto r1, Reference auto r2): the requires-clause
\* removes the overload unless both the common spec and the common unit exist
common_reference(r1, r2) ==
  LET q == common_quantity_spec(get_quantity_spec_ref(r1), get_quantity_spec_ref(r2))
      u == common_unit(get_unit_ref(r1), get_unit_ref(r2))
  IN IF q = None \/ u = None THEN None ELSE Some(reference(q[1], u[1]))

\* common_reference(r1, r2, rest...) with one more reference
common_reference3(r1, r2, r3) ==
  LET q == common_quantity_spec3(get_quantity_spec_ref(r1), get_quantity_spec_ref(r2),
                                 get_quantity_spec_ref(r3))
      u == common_unit3(get_unit_ref(r1), get_unit_ref(r2), get_unit_ref(r3))
  IN IF q = None \/ u = None THEN None ELSE Some(reference(q[1], u[1]))

\* common_reference(AssociatedUnit auto u1, AssociatedUnit auto u2)
common_reference_units(u1, u2) ==
  LET u == common_unit(u1, u2)
  IN IF u = None THEN None
     ELSE IF ~AssociatedUnit(u[1]) THEN None
     ELSE u

\* the left operand of `lhs * reference`: a type that may be a quantity and
\* that declares the characters it can represent
Operands == [quantity : BOOLEAN, caps : SUBSET Characters]

Quantity(x) == x.quantity

RepresentationOf(x, ch) == ch \in x.caps

rep_mul_reference_NoDelete(lhs, r) ==
  IF RepresentationOf(lhs, character(get_quantity_spec_ref(r)))
    THEN Some([reference |-> r, value |-> lhs])
    ELSE None

\* operator*(const Rep& lhs, R) and the deleted operator*(Quantity auto,
\* Reference auto): a quantity on the left always reaches the deleted overload
rep_mul_reference(lhs, r) ==
  IF Quantity(lhs) THEN None
  ELSE IF RepresentationOf(lhs, character(get_quantity_spec_ref(r)))
    THEN Some([reference |-> r, value |-> lhs])
    ELSE None

-----------------------------------------------------------------------------
\* quantity_spec_concepts.h: the terms a derived_quantity_spec accepts.
\* A type term is [tag, args]: a named spec, the dimensionless type, a
\* derived_quantity_spec specialization, power<F, ...> (args = <<F>>) or
\* per<Ts...> (args = Ts).

Term(tag, args) == [tag |-> tag, args |-> args]

NamedQuantitySpec(T) == T.tag = "named"

is_dimensionless(T) == T.tag = "dimensionless"

is_specialization_of_power(T) == T.tag = "power"

is_power_of_quantity_spec_AnyFactor(T) == is_specialization_of_power(T)

is_power_of_quantity_spec(T) ==
  /\ is_specialization_of_power(T)
  /\ (NamedQuantitySpec(T.args[1]) \/ is_dimensionless(T.args[1]))

is_per_of_quantity_specs(T) ==
  /\ T.tag = "per"
  /\ \A i \in DOMAIN T.args :
       \/ NamedQuantitySpec(T.args[i])
       \/ is_dimensionless(T.args[i])
       \/ is_power_of_quantity_spec(T.args[i])

DerivedQuantitySpecExpr(T) ==
  \/ NamedQuantitySpec(T)
  \/ is_dimensionless(T)
  \/ is_power_of_quantity_spec(T)
  \/ is_per_of_quantity_specs(T)

-----------------------------------------------------------------------------
\* Input sets.

RECURSIVE UnitsUpTo(_)
UnitsUpTo(n) ==
  IF n = 0 THEN {one} \cup {Named(x) : x \in Range(UnitNames)}
  ELSE LET prev == UnitsUpTo(n - 1)
       IN prev \cup {unit_mul(u, Named(x)) : u \in prev, x \in Range(UnitNames)}
               \cup {unit_div(u, Named(x)) : u \in prev, x \in Range(UnitNames)}

Units == UnitsUpTo(MaxUnitOps)

AssociatedUnits == {u \in Units : AssociatedUnit(u)}

NamedUnits == {u \in UnitsUpTo(0) : AssociatedUnit(u)}

RECURSIVE SpecsUpTo(_)
SpecsUpTo(n) ==
  IF n = 0 THEN {dimensionless} \cup {Named(x) : x \in Range(SpecNames)}
  ELSE LET prev == SpecsUpTo(n - 1)
       IN prev \cup {spec_mul(q, Named(x)) : q \in prev, x \in Range(SpecNames)}
               \cup {spec_div(q, Named(x)) : q \in prev, x \in Range(SpecNames)}

Specs == SpecsUpTo(MaxSpecOps)

RefUnits == {Named("metre"), Named("kilometre"), Named("hectare"), Named("second")}

Refs == {reference(q, u) : q \in Specs, u \in RefUnits}

\* references of a named spec (or dimensionless) and a named unit
BaseRefs == {reference(q, u) : q \in SpecsUpTo(0), u \in RefUnits}

\* the references compared or combined with the bare unit u: the base
\* references, and u under its own spec and under each named spec
RefsFor(u) ==
  BaseRefs \cup {reference(q, u) : q \in SpecsUpTo(0) \cup {get_quantity_spec(u)}}

DeclaredRefs ==
  {reference(Named("length"), Named("metre")),
   reference(Named("length"), Named("kilometre")),
   reference(Named("displacement"), Named("metre")),
   reference(Named("time"), Named("second"))}

Leaves == {Term("named", <<>>), Term("dimensionless", <<>>), Term("derived", <<>>)}

\* terms nested in another term carry at most one element in a per<...>; the
\* outermost per<...> carries up to MaxPerLen
RECURSIVE TermsUpTo(_)
TermsUpTo(d) ==
  IF d = 0 THEN Leaves
  ELSE LET prev == TermsUpTo(d - 1)
       IN prev \cup {Term("power", <<t>>) : t \in prev}
               \cup {Term("per", <<>>)}
               \cup {Term("per", <<t>>) : t \in prev}

Terms ==
  LET prev == TermsUpTo(MaxTermDepth - 1)
  IN prev \cup {Term("power", <<t>>) : t \in prev}
          \cup {Term("per", s) : s \in UNION {[1..n -> prev] : n \in 0..MaxPerLen}}

-----------------------------------------------------------------------------
\* The machine that applies one operation to chosen operands.

\* every compile-time expression is evaluated once, from the initial state
Fresh == op = "init"

Init ==
  /\ op = "init" /\ a = <<>> /\ b = <<>> /\ c = <<>> /\ out = <<>>
  /\ wpc = "idle" /\ wunit = one /\ wstack = <<>> /\ wacc = dimensionless

Apply(o, x, y, z, r) ==
  /\ op' = o /\ a' = x /\ b' = y /\ c' = z /\ out' = r
  /\ UNCHANGED walkVars

Equals ==
  Fresh /\ \E r1 \in Refs, r2 \in Refs : Apply("eq", r1, r2, <<>>, reference_eq(r1, r2))

EqualsUnit ==
  Fresh /\ \E u2 \in AssociatedUnits : \E r1 \in RefsFor(u2) : Apply("eq_unit", r1, u2, <<>>, reference_eq_unit(r1, u2))

Multiply ==
  Fresh /\ \E r1 \in Refs, r2 \in BaseRefs : Apply("mul", r1, r2, <<>>, reference_mul(r1, r2))

MultiplyUnit ==
  Fresh /\ \E u2 \in AssociatedUnits : \E r1 \in RefsFor(u2) : Apply("mul_unit", r1, u2, <<>>, reference_mul_unit(r1, u2))

UnitMultiply ==
  Fresh /\ \E u1 \in AssociatedUnits : \E r2 \in RefsFor(u1) : Apply("unit_mul", u1, r2, <<>>, unit_mul_reference(u1, r2))

Divide ==
  Fresh /\ \E r1 \in Refs, r2 \in BaseRefs : Apply("div", r1, r2, <<>>, reference_div(r1, r2))

DivideUnit ==
  Fresh /\ \E u2 \in AssociatedUnits : \E r1 \in RefsFor(u2) : Apply("div_unit", r1, u2, <<>>, reference_div_unit(r1, u2))

UnitDivide ==
  Fresh /\ \E u1 \in AssociatedUnits : \E r2 \in RefsFor(u1) : Apply("unit_div", u1, r2, <<>>, unit_div_reference(u1, r2))

Interconvertible ==
  Fresh /\ \E r1 \in Refs, r2 \in Refs : Apply("ic", r1, r2, <<>>, interconvertible(r1, r2))

InterconvertibleUnit ==
  Fresh /\ \E u2 \in AssociatedUnits : \E r1 \in RefsFor(u2) :
    Apply("ic_unit", r1, u2, <<>>, interconvertible_ref_unit(r1, u2))

UnitInterconvertible ==
  Fresh /\ \E u1 \in AssociatedUnits : \E r2 \in RefsFor(u1) :
    Apply("unit_ic", u1, r2, <<>>, interconvertible_unit_ref(u1, r2))

CommonReference ==
  Fresh /\ \E r1 \in Refs, r2 \in Refs : Apply("common", r1, r2, <<>>, common_reference(r1, r2))

CommonReference3 ==
  Fresh /\ \E r1 \in Refs, r2 \in BaseRefs, r3 \in DeclaredRefs :
    Apply("common3", r1, r2, r3, common_reference3(r1, r2, r3))

CommonReferenceUnits ==
  Fresh /\ \E u1 \in AssociatedUnits, u2 \in AssociatedUnits :
    Apply("common_units", u1, u2, <<>>, common_reference_units(u1, u2))

Bind ==
  Fresh /\ \E lhs \in Operands, r \in Refs : Apply("bind", lhs, r, <<>>, rep_mul_reference(lhs, r))

ConstructDerived ==
  Fresh /\ \E T \in Terms : Apply("derived_expr", T, <<>>, <<>>, DerivedQuantitySpecExpr(T))

\* get_quantity_spec(u) for any unit: no result when the walk returns nothing
GetQuantitySpec ==
  Fresh /\ \E u \in Units : Apply("spec_of_unit", u, <<>>, <<>>, get_associated_quantity(u))

GetQuantitySpecRef ==
  Fresh /\ \E r \in Refs : Apply("spec_of_ref", r, <<>>, <<>>, get_quantity_spec_ref(r))

GetUnit ==
  Fresh /\ \E u \in AssociatedUnits : Apply("unit_of_unit", u, <<>>, <<>>, get_unit(u))

GetUnitRef ==
  Fresh /\ \E r \in Refs : Apply("unit_of_ref", r, <<>>, <<>>, get_unit_ref(r))

\* get_quantity_spec(u1 * u2) and get_quantity_spec(u1 / u2)
SpecOfProduct ==
  Fresh /\ \E u1 \in AssociatedUnits, u2 \in AssociatedUnits :
    Apply("spec_of_product", u1, u2, <<>>, get_quantity_spec(unit_mul(u1, u2)))

SpecOfQuotient ==
  Fresh /\ \E u1 \in AssociatedUnits, u2 \in AssociatedUnits :
    Apply("spec_of_quotient", u1, u2, <<>>, get_quantity_spec(unit_div(u1, u2)))

\* (r * u1) * u2 and r * (u1 * u2)
MultiplyTwice ==
  Fresh /\ \E r \in DeclaredRefs, u1 \in AssociatedUnits, u2 \in NamedUnits :
    Apply("assoc", r, u1, u2,
          <<reference_mul_unit(reference_mul_unit(r, u1), u2),
            reference_mul_unit(r, unit_mul(u1, u2))>>)

Next ==
  \/ Equals
  \/ EqualsUnit
  \/ Multiply
  \/ MultiplyUnit
  \/ UnitMultiply
  \/ Divide
  \/ DivideUnit
  \/ UnitDivide
  \/ Interconvertible
  \/ InterconvertibleUnit
  \/ UnitInterconvertible
  \/ CommonReference
  \/ CommonReference3
  \/ CommonReferenceUnits
  \/ Bind
  \/ ConstructDerived
  \/ GetQuantitySpec
  \/ GetQuantitySpecRef
  \/ GetUnit
  \/ GetUnitRef
  \/ SpecOfProduct
  \/ SpecOfQuotient
  \/ MultiplyTwice

Spec == Init /\ [][Next]_vars

-----------------------------------------------------------------------------
\* The walk of detail::get_associated_quantity, one instantiation per step.
\* wstack holds the calls still to be evaluated, each with the sign with
\* which its result enters the quotient; wacc is the spec computed so far.
\*
\* a pending call: of the unit overload (on `unit`), of the power overload
\* (on the factor list[1]) or of the type_list overload (on `list`)
Frame(kind, unit, list, sign) == [kind |-> kind, unit |-> unit, list |-> list, sign |-> sign]

UnitFrame(u, sign) == Frame("unit", u, <<>>, sign)

ListFrame(l, sign) == Frame("list", one, l, sign)

ElementFrame(f, sign) ==
  IF f[2] = 1 THEN UnitFrame(Named(f[1]), sign) ELSE Frame("power", one, <<f>>, sign)

WalkInit ==
  /\ op = "init" /\ a = <<>> /\ b = <<>> /\ c = <<>> /\ out = <<>>
  /\ wunit \in Units
  /\ wpc = "walk"
  /\ wstack = <<UnitFrame(wunit, 1)>>
  /\ wacc = dimensionless

Top == Head(wstack)

AtUnit(k) ==
  /\ wpc = "walk" /\ wstack # <<>>
  /\ Top.kind = "unit" /\ UnitCase(Top.unit) = k

WalkReference ==
  /\ AtUnit("reference_unit")
  /\ wstack' = <<UnitFrame(reference_unit[NameOf(Top.unit)], Top.sign)>> \o Tail(wstack)
  /\ UNCHANGED <<wpc, wunit, wacc>>
  /\ UNCHANGED calcVars

WalkRatio ==
  /\ AtUnit("_num_")
  /\ wstack' = <<ListFrame(Top.unit.num, Top.sign), ListFrame(Top.unit.den, -Top.sign)>>
                 \o Tail(wstack)
  /\ UNCHANGED <<wpc, wunit, wacc>>
  /\ UNCHANGED calcVars

WalkBase ==
  /\ AtUnit("base_quantity")
  /\ wacc' = IF Top.sign = 1 THEN spec_mul(wacc, base_quantity[NameOf(Top.unit)])
             ELSE spec_div(wacc, base_quantity[NameOf(Top.unit)])
  /\ wstack' = Tail(wstack)
  /\ UNCHANGED <<wpc, wunit>>
  /\ UNCHANGED calcVars

WalkNoCase ==
  /\ AtUnit("none")
  /\ wpc' = "void"
  /\ UNCHANGED <<wunit, wstack, wacc>>
  /\ UNCHANGED calcVars

WalkPower ==
  /\ wpc = "walk" /\ wstack # <<>> /\ Top.kind = "power"
  /\ wstack' = <<UnitFrame(Named(Top.list[1][1]), Top.sign)>> \o Tail(wstack)
  /\ UNCHANGED <<wpc, wunit, wacc>>
  /\ UNCHANGED calcVars

WalkListElement ==
  /\ wpc = "walk" /\ wstack # <<>> /\ Top.kind = "list" /\ Top.list # <<>>
  /\ wstack' = <<ElementFrame(Head(Top.list), Top.sign), ListFrame(Tail(Top.list), Top.sign)>>
                 \o Tail(wstack)
  /\ UNCHANGED <<wpc, wunit, wacc>>
  /\ UNCHANGED calcVars

WalkListEnd ==
  /\ wpc = "walk" /\ wstack # <<>> /\ Top.kind = "list" /\ Top.list = <<>>
  /\ wacc' = IF Top.sign = 1 THEN spec_mul(wacc, dimensionless) ELSE spec_div(wacc, dimensionless)
  /\ wstack' = Tail(wstack)
  /\ UNCHANGED <<wpc, wunit>>
  /\ UNCHANGED calcVars

WalkReturn ==
  /\ wpc = "walk" /\ wstack = <<>>
  /\ wpc' = "done"
  /\ UNCHANGED <<wunit, wstack, wacc>>
  /\ UNCHANGED calcVars

WalkNext ==
  \/ WalkReference
  \/ WalkRatio
  \/ WalkBase
  \/ WalkNoCase
  \/ WalkPower
  \/ WalkListElement
  \/ WalkListEnd
  \/ WalkReturn

WalkSpec == WalkInit /\ [][WalkNext]_vars /\ WF_vars(WalkNext)

-----------------------------------------------------------------------------
\* Properties of the reference binder.

\* C1: operator== on two references is true exactly when the spec sides are
\* equal and the unit sides are equal; references that differ on one side
\* only compare unequal.
C1_EqualsIsPointwise ==
  op = "eq" =>
    /\ out <=> (a.q = b.q /\ a.u = b.u)
    /\ (a.q # b.q /\ a.u = b.u) => ~out
    /\ (a.q = b.q /\ a.u # b.u) => ~out

C1_Witness == op = "eq" /\ a.u = b.u /\ a.q # b.q /\ out = FALSE

\* C2: a reference equals a bare associated unit u exactly when its spec is
\* get_quantity_spec(u) and its unit is u; (get_quantity_spec(u), u) equals u,
\* the same unit under another spec does not.
C2_EqualsUnit ==
  op = "eq_unit" =>
    /\ out <=> (a.q = get_quantity_spec(b) /\ a.u = b)
    /\ a = reference(get_quantity_spec(b), b) => out
    /\ (a.u = b /\ a.q # get_quantity_spec(b)) => ~out

C2_Witness ==
  /\ op = "eq_unit" /\ a.u = b
  /\ a.q = Named("displacement") /\ get_quantity_spec(b) = Named("length")
  /\ out = FALSE

\* C3: * and / on references combine the spec sides and the unit sides
\* independently; a bare unit u on either side acts as the reference
\* (get_quantity_spec(u), u), in the operand order written.
C3_MultiplyDividePointwise ==
  /\ op = "mul" => out = reference(spec_mul(a.q, b.q), unit_mul(a.u, b.u))
  /\ op = "div" => out = reference(spec_div(a.q, b.q), unit_div(a.u, b.u))
  /\ op = "mul_unit" => out = reference_mul(a, reference(get_quantity_spec(b), b))
  /\ op = "unit_mul" => out = reference_mul(reference(get_quantity_spec(a), a), b)
  /\ op = "div_unit" => out = reference_div(a, reference(get_quantity_spec(b), b))
  /\ op = "unit_div" => out = reference_div(reference(get_quantity_spec(a), a), b)

C3_Witness ==
  /\ op = "unit_div"
  /\ out = reference(spec_div(get_quantity_spec(a), b.q), unit_div(a, b.u))
  /\ out # reference(spec_div(b.q, get_quantity_spec(a)), unit_div(b.u, a))

\* C4: interconvertible on references holds exactly when the spec sides and
\* the unit sides are both interconvertible; a bare unit u stands for
\* (get_quantity_spec(u), u), and interconvertible(u, r) = interconvertible(r, u).
C4_InterconvertiblePointwise ==
  /\ op = "ic" =>
       (out <=> (interconvertible_spec(a.q, b.q) /\ interconvertible_unit(a.u, b.u)))
  /\ op = "ic_unit" =>
       (out <=> (interconvertible_spec(a.q, get_quantity_spec(b)) /\ interconvertible_unit(a.u, b)))
  /\ op = "unit_ic" =>
       (out <=> (interconvertible_spec(b.q, get_quantity_spec(a)) /\ interconvertible_unit(b.u, a)))

C4_Witness == op = "ic" /\ a.q # b.q /\ a.u # b.u /\ out = TRUE

\* C5: common_reference has a result only when the common quantity spec of the
\* specs and the common unit of the units both exist, and the result is then
\* the reference made of those two; otherwise there is no result at all.
C5_CommonReference ==
  /\ op = "common" =>
       LET q == common_quantity_spec(a.q, b.q)
           u == common_unit(a.u, b.u)
       IN /\ (q # None /\ u # None) => out = Some(reference(q[1], u[1]))
          /\ (q = None \/ u = None) => out = None
  /\ op = "common3" =>
       LET q == common_quantity_spec3(a.q, b.q, c.q)
           u == common_unit3(a.u, b.u, c.u)
       IN /\ (q # None /\ u # None) => out = Some(reference(q[1], u[1]))
          /\ (q = None \/ u = None) => out = None

C5_Witness ==
  /\ op = "common"
  /\ common_quantity_spec(a.q, b.q) # None
  /\ common_unit(a.u, b.u) = None
  /\ out = None

\* C6: a term is accepted as a factor of a derived quantity spec exactly when
\* it is a named spec, dimensionless, a power of one of these two, or a per
\* whose elements are each one of those three; a raw derived spec, a power of
\* a derived spec or of a per, and a per inside a per are rejected.
SimpleFactor(T) == T.tag \in {"named", "dimensionless"}

PowerOfSimple(T) == T.tag = "power" /\ SimpleFactor(T.args[1])

C6_DerivedQuantitySpecExpr ==
  op = "derived_expr" =>
    /\ out <=> \/ SimpleFactor(a)
               \/ PowerOfSimple(a)
               \/ /\ a.tag = "per"
                  /\ \A i \in DOMAIN a.args : SimpleFactor(a.args[i]) \/ PowerOfSimple(a.args[i])
    /\ a.tag = "derived" => ~out
    /\ (a.tag = "power" /\ a.args[1].tag \in {"derived", "per"}) => ~out
    /\ (a.tag = "per" /\ \E i \in DOMAIN a.args : a.args[i].tag = "per") => ~out

C6_Witness ==
  /\ op = "derived_expr"
  /\ a.tag = "power" /\ a.args[1].tag = "derived"
  /\ out = FALSE

\* C7: lhs * reference makes a quantity only when lhs is not a quantity and
\* can represent the character of the reference's spec; a quantity on the left
\* is always rejected.
C7_BindGuard ==
  op = "bind" =>
    /\ (out # None) <=> (~a.quantity /\ character(b.q) \in a.caps)
    /\ a.quantity => out = None
    /\ out # None => out = Some([reference |-> b, value |-> a])

C7_Witness ==
  op = "bind" /\ a.quantity /\ character(b.q) \in a.caps /\ out = None

\* The quantity spec a unit measures, every factor of a ratio counted with its
\* exponent.
RECURSIVE NaturalSpec(_)
RECURSIVE ProductOfFactorSpecs(_)
ProductOfFactorSpecs(l) ==
  IF l = <<>> THEN dimensionless
  ELSE spec_mul(ProductOfFactorSpecs(Tail(l)),
                spec_pow(NaturalSpec(Named(Head(l)[1])), Head(l)[2]))

NaturalSpec(u) ==
  IF has_reference_unit(u) THEN NaturalSpec(reference_unit[NameOf(u)])
  ELSE IF has_num(u) THEN spec_div(ProductOfFactorSpecs(u.num), ProductOfFactorSpecs(u.den))
  ELSE base_quantity[NameOf(u)]

\* C8: get_quantity_spec of a bare unit is the spec the unit measures: that of
\* its reference unit, or the product of the specs of the numerator factors
\* over that of the denominator factors, or its base quantity; of a reference
\* (Q,U) it is Q, get_unit is U, and get_unit of a bare unit is the unit.
C8_SpecOfUnit ==
  /\ (op = "spec_of_unit" /\ AssociatedUnit(a)) => out = Some(NaturalSpec(a))
  /\ op = "spec_of_ref" => out = a.q
  /\ op = "unit_of_ref" => out = a.u
  /\ op = "unit_of_unit" => out = a

\* C9: get_quantity_spec distributes over * and / of units, so multiplying a
\* reference by u1 and then by u2 equals multiplying it by u1 * u2.
C9_UnitStandsForReference ==
  /\ op = "spec_of_product" => out = spec_mul(get_quantity_spec(a), get_quantity_spec(b))
  /\ op = "spec_of_quotient" => out = spec_div(get_quantity_spec(a), get_quantity_spec(b))
  /\ op = "assoc" => reference_eq(out[1], out[2])

\* C10: the walk over an associated unit never ends without a result, and it
\* terminates with the quantity spec get_associated_quantity returns.
C10_WalkTerminates ==
  /\ [](AssociatedUnit(wunit) => wpc # "void")
  /\ [](wpc = "done" => Some(wacc) = get_associated_quantity(wunit))
  /\ (wpc = "walk" /\ AssociatedUnit(wunit)) ~> (wpc = "done")

C10_Witness ==
  wpc = "done" /\ AssociatedUnit(wunit) /\ wunit.den # <<>> /\ Len(wunit.num) > 0

====
